---- MODULE Spec2Model ----
(***************************************************************************)
(* A model of the ingestion script of rag_chatbot (src/unnamed/part_000):  *)
(* the concurrency limiter (createLimiter), the embedding pacer            *)
(* (paceEmbeds), the retry policy (withRetry), the embedding client        *)
(* (embed), the text extraction (extractTextSmart, ocrPdfToText), the page *)
(* splitter (splitByPages) and the ingestion driver (main); and of the     *)
(* chunker it calls (chunkText, src/lib/rag.ts).                           *)
(*                                                                         *)
(* One specification per component, all over the same variables:           *)
(*   SpecLimiter / SpecLimiterFair  createLimiter(max) with arbitrary fn   *)
(*   SpecRetry                      withRetry(fn, tries)                   *)
(*   SpecEmbed                      concurrent embed() callers             *)
(*   SpecExtract                    extractTextSmart with ocrPdfToText,    *)
(*                                  and the page split of main             *)
(*   SpecSplit                      splitByPages(text)                     *)
(*   SpecChunk / SpecChunkFair      chunkText(text, chunkSize, overlap)    *)
(*   Spec                           main(), the ingestion driver           *)
(* A specification leaves the variables of the other components at their   *)
(* idle values.  Variables marked "history" record what has happened and   *)
(* are read by no action's guard.  The table public.rag_chunks is          *)
(* append-only; the model keeps its size and its last row.                 *)
(***************************************************************************)
EXTENDS Integers, Sequences, FiniteSets, TLC

VARIABLES
  \* ---- createLimiter(max): part_000 lines 33-59
  max,          \* the limiter's parameter
  active,       \* let active = 0
  queue,        \* const queue: Array<() => void>; holds job ids
  jst,          \* per job: where its wrapper (lines 45-55) stands
  nsub,         \* number of limit(fn) calls made so far; job ids are 1..nsub
  startOrder,   \* history: the job ids in the order their fn was invoked
  fres,         \* per job: how its fn settled ("none", "ok", "err")
  pres,         \* per job: how limit()'s promise settled ("pending", "ok", "err")
  waited,       \* history: the jobs that were not admitted by their own next()
  \* ---- withRetry(fn, tries): part_000 lines 88-123
  tries,        \* the parameter (default 8)
  attempt,      \* the loop variable i
  rpc,          \* "idle", "call" (awaiting fn()), "sleep" (awaiting
                \* sleep(wait)), "returned", "thrown"
  lastErr,      \* let lastErr
  wait,         \* let wait (ms), as computed last
  slept,        \* how long the last sleep(wait) really took (ms)
  result,       \* what withRetry returned or threw
  calls,        \* history: number of fn() invocations
  sleeps,       \* history: number of sleep(wait) calls
  obs,          \* history: what the operation did, as its caller saw it
  \* ---- paceEmbeds() and embed(): part_000 lines 69-77, 130-145
  now,              \* Date.now() (ms)
  lastEmbedCallAt,  \* let lastEmbedCallAt = 0
  wakeAt,           \* per job: when the timer of the sleep() it awaits is due
                    \* (paceEmbeds line 74, or withRetry line 118)
  tryNo,            \* per job: the loop variable i of its withRetry call
  callAt,           \* history, per job: when its outbound call was started
  advances,         \* number of times the clock has moved
  \* ---- main(): part_000 lines 251-307
  mpc,            \* where main() stands: the await it is suspended at
  exitCode,       \* the process's exit code (NotExited while it runs)
  nFiles,         \* files.length
  fi,             \* position of `file` in files (1-based)
  usedOcr,        \* usedOcr, for the current file
  nPages,         \* pages.length, for the current file
  pi,             \* position of `p` in pages (1-based)
  pageNo,         \* p.page
  pContent,       \* p.content
  pageChunks,     \* const chunks = chunkText(p.content, 900, 150)
  nChunks,        \* chunks.length
  ci,             \* idx
  nRows,          \* number of rows of public.rag_chunks
  lastRow,        \* the row inserted last
  dbOpens,        \* history: number of db.connect() calls
  dbEnds,         \* history: number of db.end() calls
  embedsStarted,  \* history: number of embed() calls
  insertsIssued,  \* history: number of INSERT queries sent
  chunksMade,     \* history: number of chunks chunkText has returned
  filesDone,      \* history: number of files whose page loop ran to its end
  lastEmbed,      \* history: the response the last embed() call got from
                  \* the service, and how embed() settled
  faults,         \* history: number of failures the run has met
  atFault,        \* history: the counts when the first failure happened
  \* ---- chunkText(text, chunkSize, overlap): src/lib/rag.ts lines 52-64
  cpc,          \* "idle", "called", "loop" (at the while test), "returned"
  cText,        \* the parameter text
  chunkSize,    \* the parameter chunkSize
  overlap,      \* the parameter overlap
  clean,        \* const clean
  offset,       \* let i
  chunks,       \* const chunks: string[]
  turns,        \* history: number of turns of the while loop so far
  \* ---- extractTextSmart and ocrPdfToText: part_000 lines 179-235
  xpc,          \* where the extraction stands: the await it is suspended at
  parsedText,   \* parsed.text, what pdf-parse returned
  worker,       \* the recognition worker: "none", "alive", "terminated"
  tmpDir,       \* the temporary directory: "none", "present", "removed"
  images,       \* const images: the page numbers of the PNG files, sorted
  imgIdx,       \* position of imgName in images (1-based)
  fullText,     \* let fullText
  recognized,   \* history: data.text of every page recognised so far
  extracted,    \* what extractTextSmart returned: [text, usedOcr]
  xerr,         \* history: the step whose failure extractTextSmart threw
  \* ---- splitByPages(text): part_000 lines 237-249
  spc,          \* "idle", "called", "returned"
  splitIn,      \* the parameter text
  pages         \* what splitByPages returned

limVars == <<max, active, queue, jst, nsub, startOrder, fres, pres, waited>>
retVars == <<tries, attempt, rpc, lastErr, wait, slept, result, calls, sleeps, obs>>
embVars == <<now, lastEmbedCallAt, wakeAt, tryNo, callAt, advances>>
mainVars == <<mpc, exitCode, nFiles, fi, usedOcr, nPages, pi, pageNo, pContent,
              pageChunks, nChunks, ci, nRows, lastRow, dbOpens, dbEnds,
              embedsStarted, insertsIssued, chunksMade, filesDone, lastEmbed,
              faults, atFault>>

chkVars == <<cpc, cText, chunkSize, overlap, clean, offset, chunks, turns>>
ocrVars == <<xpc, parsedText, worker, tmpDir, images, imgIdx, fullText,
             recognized, extracted, xerr>>
splVars == <<spc, splitIn, pages>>
docVars == <<chkVars, ocrVars, splVars>>

vars == <<limVars, retVars, embVars, mainVars, docVars>>

\* ---------------------------------------------------------------- bounds
MaxJobs == 4     \* limit(fn) submissions per behaviour of SpecLimiter
MaxLimit == 2    \* largest createLimiter(max) parameter tried
MaxEmbeds == 3   \* embed() calls per behaviour of SpecEmbed (at most MaxJobs)
MaxAdvances == 2 \* clock movements per behaviour of SpecEmbed
MaxFiles == 2    \* PDFs in the policies directory
MaxPages == 2    \* pages of a file, and the largest page number
MaxChunks == 2   \* chunks of a page
MaxImages == 2   \* page images the rasterizer leaves for ocrPdfToText
MaxSplitRuns == 3  \* runs of a text given to splitByPages on its own
MaxWindows == 2  \* whole window steps the texts given to chunkText span

Jobs == 1..MaxJobs

\* ============================================== withRetry(fn, tries = 8)

DefaultTries == 8       \* tries = 8
BackoffBaseMs == 1000   \* 1000 * 2 ** i
BackoffCapMs == 60000   \* Math.min(60_000, ...)
JitterSpan == 500       \* Math.floor(Math.random() * 500)

Min(a, b) == IF a <= b THEN a ELSE b
Max(a, b) == IF a >= b THEN a ELSE b

\* What a failing fn() rejects with, as far as withRetry reads it:
\*   status   e.status            ("undef": absent)
\*   rstatus  e.response.status   ("undef": absent)
\*   ra       the retry-after header found by lines 98-100 ("undef": absent)
\* HTTP statuses are written as strings; the code compares numbers.
Errors ==
  [status : {"undef", "429", "403", "500"},
   rstatus : {"undef", "429"},
   ra : {"undef", "", "0", "2", "70", "abc"}]

NoErr == [status |-> "none", rstatus |-> "none", ra |-> "none"]

\* What a fulfilling fn() resolves with: an embeddings response that carries
\* a vector, none, or an empty one.
Responses == {"vec", "novec", "emptyvec"}

\* Math.floor(Math.random() * 500) is one of 0..499; its two ends.
JitterValues == {0, JitterSpan - 1}

\* setTimeout fires no earlier than asked, and possibly later (ms).
TimerLateness == {0, 3}

\* const status = e?.status ?? e?.response?.status
EffectiveStatus(e) == IF e.status # "undef" THEN e.status ELSE e.rstatus

\* A plausible slip: every HTTP error status is retried.
IsAnyHttpError(e) == EffectiveStatus(e) \in {"429", "403", "500"}

\* const isRateLimit = status === 429 || status === 403
IsRateLimit(e) == EffectiveStatus(e) = "429" \/ EffectiveStatus(e) = "403"

\* Number(retryAfterRaw) for the header values of Errors.
NumberOf(raw) ==
  CASE raw = "0" -> [nan |-> FALSE, val |-> 0]
    [] raw = "2" -> [nan |-> FALSE, val |-> 2]
    [] raw = "70" -> [nan |-> FALSE, val |-> 70]
    [] raw = "" -> [nan |-> FALSE, val |-> 0]
    [] OTHER -> [nan |-> TRUE, val |-> 0]

\* if (retryAfterRaw) { const sec = Number(..); if (!Number.isNaN(sec) && sec > 0)
\* An absent header and the empty string are falsy.
UsableRetryAfter(raw) ==
  /\ raw # "undef" /\ raw # ""
  /\ ~NumberOf(raw).nan
  /\ NumberOf(raw).val > 0

\* A plausible slip: 2 * i for 2 ** i.
BackoffLinear(idx) == Min(BackoffCapMs, BackoffBaseMs * (2 * idx))

\* A plausible slip: the cap is left out.
BackoffNoCap(idx) == BackoffBaseMs * 2^idx

\* Math.min(60_000, 1000 * 2 ** i)
Backoff(idx) == Min(BackoffCapMs, BackoffBaseMs * 2^idx)

\* let wait = Backoff + jitter; if the header is usable,
\* wait = Math.max(wait, sec * 1000)
WaitFor(idx, e, jitter) ==
  IF UsableRetryAfter(e.ra)
  THEN Max(Backoff(idx) + jitter, NumberOf(e.ra).val * 1000)
  ELSE Backoff(idx) + jitter

\* A plausible slip: i <= tries.
LoopOneMore(idx, n) == idx <= n

\* for (let i = 0; i < tries; i++)
LoopContinues(idx, n) == idx < n

RetryUnchanged == UNCHANGED <<limVars, embVars, mainVars, docVars>>

\* What the claims call a rate-limit signal: status 429 or 403.
RateLimited(e) == EffectiveStatus(e) \in {"429", "403"}

\* The caller's record of a failure of the operation: its kind by the
\* status it carried, the jitter drawn for it, and the counts of invocations
\* and sleeps up to it.
Observe(e, jitter) ==
  IF RateLimited(e)
  THEN [obs EXCEPT !.rlFails = @ + 1, !.lastFail = e, !.jitter = jitter]
  ELSE [obs EXCEPT !.otherFails = @ + 1, !.lastFail = e,
                   !.callsAtOther = calls, !.sleepsAtOther = sleeps]

\* `return await fn()`: the awaited call fulfils.
FnResolves(v) ==
  /\ rpc = "call"
  /\ rpc' = "returned"
  /\ result' = [kind |-> "ok", val |-> v, err |-> NoErr]
  /\ obs' = [obs EXCEPT !.okVal = v]
  /\ UNCHANGED <<tries, attempt, lastErr, wait, slept, calls, sleeps>>
  /\ RetryUnchanged

\* catch (e): the awaited call rejects with e.  A failure that is no rate
\* limit is rethrown at once; otherwise the wait is computed and sleep(wait)
\* is started.
FnRejects(e, jitter) ==
  /\ rpc = "call"
  /\ lastErr' = e
  /\ IF ~IsRateLimit(e)
     THEN /\ rpc' = "thrown"
          /\ result' = [kind |-> "err", val |-> "", err |-> e]
          /\ UNCHANGED <<wait, sleeps>>
     ELSE /\ rpc' = "sleep"
          /\ wait' = WaitFor(attempt, e, jitter)
          /\ sleeps' = sleeps + 1
          /\ UNCHANGED result
  /\ obs' = Observe(e, jitter)
  /\ UNCHANGED <<tries, attempt, slept, calls>>
  /\ RetryUnchanged

\* The timer of sleep(wait) fires; i++; the loop either calls fn() again or
\* falls through to `throw lastErr`.
TimerFires(late) ==
  /\ rpc = "sleep"
  /\ slept' = wait + late
  /\ attempt' = attempt + 1
  /\ IF LoopContinues(attempt + 1, tries)
     THEN /\ rpc' = "call"
          /\ calls' = calls + 1
          /\ UNCHANGED result
     ELSE /\ rpc' = "thrown"
          /\ result' = [kind |-> "err", val |-> "", err |-> lastErr]
          /\ UNCHANGED calls
  /\ UNCHANGED <<tries, lastErr, wait, sleeps, obs>>
  /\ RetryUnchanged

NoObs ==
  [rlFails |-> 0, otherFails |-> 0, lastFail |-> NoErr, jitter |-> 0,
   callsAtOther |-> 0, sleepsAtOther |-> 0, okVal |-> ""]

InitRetryIdle ==
  /\ tries = DefaultTries
  /\ attempt = 0
  /\ rpc = "idle"
  /\ lastErr = NoErr
  /\ wait = 0
  /\ slept = 0
  /\ result = [kind |-> "none", val |-> "", err |-> NoErr]
  /\ calls = 0
  /\ sleeps = 0
  /\ obs = NoObs


\* ===================================================== createLimiter(max)

\* A plausible slip: the guard `if (active >= max) return` is missing.
NextNoGuard(a, q, m) ==
  IF q = <<>> THEN [active |-> a, queue |-> q, job |-> 0]
  ELSE [active |-> a + 1, queue |-> Tail(q), job |-> Head(q)]

\* A plausible slip: queue.pop() instead of queue.shift().
NextPop(a, q, m) ==
  IF a >= m \/ q = <<>> THEN [active |-> a, queue |-> q, job |-> 0]
  ELSE [active |-> a + 1, queue |-> SubSeq(q, 1, Len(q) - 1), job |-> q[Len(q)]]

\* const next = () => {...}: the state after next(), and the job it invoked
\* (0: none).
LimiterNext(a, q, m) ==
  IF a >= m THEN [active |-> a, queue |-> q, job |-> 0]
  ELSE IF q = <<>> THEN [active |-> a, queue |-> q, job |-> 0]
  ELSE [active |-> a + 1, queue |-> Tail(q), job |-> Head(q)]

\* A plausible slip: active-- after resolve(res) in the try block, not in
\* finally, so a rejected job keeps its slot.
ReleaseOnSuccessOnly(a, outcome) == IF outcome = "ok" THEN a - 1 ELSE a

\* A plausible slip: active-- in the catch block as well as in finally, so
\* a rejected job gives back two slots.
ReleaseInCatchToo(a, outcome) == IF outcome = "err" THEN a - 2 ELSE a - 1

\* finally { active--; ... }: runs whether fn fulfilled or rejected.
ActiveAfterJob(a, outcome) == a - 1

\* limit(fn): queue.push(job); next().  The new job's id is its submission
\* number.  An admitted job runs synchronously up to `await fn()`: fn is
\* invoked within this call.  fn returns a promise, as its type says (the
\* script's only fn is async), so it settles in a later step.
LimitSubmit ==
  /\ nsub < MaxJobs
  /\ LET j == nsub + 1
         n == LimiterNext(active, Append(queue, j), max)
     IN /\ nsub' = j
        /\ active' = n.active
        /\ queue' = n.queue
        /\ jst' = [k \in Jobs |->
                     IF k = n.job THEN "running"
                     ELSE IF k = j THEN "queued" ELSE jst[k]]
        /\ startOrder' = IF n.job = 0 THEN startOrder
                         ELSE Append(startOrder, n.job)
        /\ waited' = IF n.job = j THEN waited ELSE waited \cup {j}
  /\ UNCHANGED <<max, fres, pres>>
  /\ UNCHANGED <<retVars, embVars, mainVars, docVars>>

\* The promise fn() returned settles (the environment's step).
FnSettle(j, outcome) ==
  /\ jst[j] = "running"
  /\ jst' = [jst EXCEPT ![j] = "settled"]
  /\ fres' = [fres EXCEPT ![j] = outcome]
  /\ UNCHANGED <<max, active, queue, nsub, startOrder, pres, waited>>
  /\ UNCHANGED <<retVars, embVars, mainVars, docVars>>

\* The wrapper resumes after `await fn()`: resolve(res) or reject(e), then
\* finally { active--; next(); }.
JobContinue(j) ==
  /\ jst[j] = "settled"
  /\ LET n == LimiterNext(ActiveAfterJob(active, fres[j]), queue, max)
     IN /\ active' = n.active
        /\ queue' = n.queue
        /\ jst' = [k \in Jobs |->
                     IF k = n.job THEN "running"
                     ELSE IF k = j THEN "done" ELSE jst[k]]
        /\ startOrder' = IF n.job = 0 THEN startOrder
                         ELSE Append(startOrder, n.job)
  /\ pres' = [pres EXCEPT ![j] = fres[j]]
  /\ UNCHANGED <<max, nsub, fres, waited>>
  /\ UNCHANGED <<retVars, embVars, mainVars, docVars>>

InitLimiterIdle ==
  /\ active = 0
  /\ queue = <<>>
  /\ jst = [j \in Jobs |-> "new"]
  /\ nsub = 0
  /\ startOrder = <<>>
  /\ fres = [j \in Jobs |-> "none"]
  /\ pres = [j \in Jobs |-> "pending"]
  /\ waited = {}

\* ================================================ paceEmbeds() and embed()

EMBED_CONCURRENCY == 2      \* Number(process.env.EMBED_CONCURRENCY ?? 2)
EMBED_MIN_DELAY_MS == 150   \* Number(process.env.EMBED_MIN_DELAY_MS ?? 150)

NotCalled == 0 - 1

\* How far one clock movement goes (ms): a little, or a whole delay.
ClockSteps == {1, EMBED_MIN_DELAY_MS}

\* paceEmbeds() up to its await, entered at time t with lastEmbedCallAt =
\* last: whether it sleeps, and when the timer of sleep(delay - elapsed) is
\* due.
PaceDecision(t, last) ==
  LET elapsed == t - last
  IN IF elapsed < EMBED_MIN_DELAY_MS
     THEN [sleep |-> TRUE, until |-> t + (EMBED_MIN_DELAY_MS - elapsed)]
     ELSE [sleep |-> FALSE, until |-> t]

\* if (!vec) throw new Error("Embedding failed."): an absent vector is
\* falsy, an empty array is not.
EmbedOutcome(r) == IF r = "throw" \/ r = "novec" THEN "err" ELSE "ok"

\* The limiter's state after next() = n, with `base` the job states before
\* the admitted job's fn runs.  fn runs synchronously into paceEmbeds(): it
\* either starts sleep(), or stamps lastEmbedCallAt and, in the same turn of
\* the event loop, issues the outbound call through withRetry.
EmbedAdmit(n, base) ==
  /\ active' = n.active
  /\ queue' = n.queue
  /\ startOrder' = IF n.job = 0 THEN startOrder ELSE Append(startOrder, n.job)
  /\ IF n.job = 0
     THEN /\ jst' = base
          /\ UNCHANGED <<lastEmbedCallAt, wakeAt, callAt>>
     ELSE LET p == PaceDecision(now, lastEmbedCallAt)
          IN IF p.sleep
             THEN /\ jst' = [base EXCEPT ![n.job] = "pacing"]
                  /\ wakeAt' = [wakeAt EXCEPT ![n.job] = p.until]
                  /\ UNCHANGED <<lastEmbedCallAt, callAt>>
             ELSE /\ jst' = [base EXCEPT ![n.job] = "calling"]
                  /\ lastEmbedCallAt' = now
                  /\ callAt' = [callAt EXCEPT ![n.job] = now]
                  /\ UNCHANGED wakeAt

\* embed(text): limitEmbed(fn) = queue.push(job); next().
EmbedSubmit ==
  /\ nsub < MaxEmbeds
  /\ LET j == nsub + 1
         n == LimiterNext(active, Append(queue, j), max)
     IN /\ nsub' = j
        /\ waited' = IF n.job = j THEN waited ELSE waited \cup {j}
        /\ EmbedAdmit(n, [jst EXCEPT ![j] = "queued"])
  /\ UNCHANGED <<max, fres, pres, now, tryNo, advances>>
  /\ UNCHANGED <<retVars, mainVars, docVars>>

\* The timer of paceEmbeds' sleep() fires, at its due time or later:
\* lastEmbedCallAt = Date.now(), and the outbound call is issued.
PaceWake(j) ==
  /\ jst[j] = "pacing"
  /\ now >= wakeAt[j]
  /\ jst' = [jst EXCEPT ![j] = "calling"]
  /\ lastEmbedCallAt' = now
  /\ callAt' = [callAt EXCEPT ![j] = now]
  /\ UNCHANGED <<max, active, queue, nsub, startOrder, fres, pres, waited>>
  /\ UNCHANGED <<now, wakeAt, tryNo, advances>>
  /\ UNCHANGED <<retVars, mainVars, docVars>>

\* The outbound call of withRetry's loop settles with a response, or with
\* a failure that is no rate limit ("throw"): withRetry returns or rethrows
\* at once, the vector is validated and fn's promise settles.
EmbedCallSettles(j, r) ==
  /\ jst[j] = "calling"
  /\ jst' = [jst EXCEPT ![j] = "settled"]
  /\ fres' = [fres EXCEPT ![j] = EmbedOutcome(r)]
  /\ UNCHANGED <<max, active, queue, nsub, startOrder, pres, waited>>
  /\ UNCHANGED <<retVars, embVars, mainVars, docVars>>

\* The limiter's wrapper resumes: resolve/reject, active--, next().
EmbedContinue(j) ==
  /\ jst[j] = "settled"
  /\ pres' = [pres EXCEPT ![j] = fres[j]]
  /\ EmbedAdmit(LimiterNext(ActiveAfterJob(active, fres[j]), queue, max),
                [jst EXCEPT ![j] = "done"])
  /\ UNCHANGED <<max, nsub, fres, waited, now, tryNo, advances>>
  /\ UNCHANGED <<retVars, mainVars, docVars>>

\* The outbound call rejects with a rate-limit failure e: withRetry computes
\* the wait and starts sleep(wait), inside fn, which has not settled.
EmbedRateLimited(j, e, jitter) ==
  /\ jst[j] = "calling"
  /\ IsRateLimit(e)
  /\ jst' = [jst EXCEPT ![j] = "backoff"]
  /\ wakeAt' = [wakeAt EXCEPT ![j] = now + WaitFor(tryNo[j], e, jitter)]
  /\ UNCHANGED <<max, active, queue, nsub, startOrder, fres, pres, waited>>
  /\ UNCHANGED <<now, lastEmbedCallAt, tryNo, callAt, advances>>
  /\ UNCHANGED <<retVars, mainVars, docVars>>

\* The timer of withRetry's sleep(wait) fires, at its due time or later;
\* i++; the loop either issues the call again or falls through to `throw
\* lastErr`, which rejects fn's promise.
EmbedBackoffOver(j) ==
  /\ jst[j] = "backoff"
  /\ now >= wakeAt[j]
  /\ tryNo' = [tryNo EXCEPT ![j] = @ + 1]
  /\ IF LoopContinues(tryNo[j] + 1, DefaultTries)
     THEN /\ jst' = [jst EXCEPT ![j] = "calling"]
          /\ UNCHANGED fres
     ELSE /\ jst' = [jst EXCEPT ![j] = "settled"]
          /\ fres' = [fres EXCEPT ![j] = "err"]
  /\ UNCHANGED <<max, active, queue, nsub, startOrder, pres, waited>>
  /\ UNCHANGED <<now, lastEmbedCallAt, wakeAt, callAt, advances>>
  /\ UNCHANGED <<retVars, mainVars, docVars>>

\* Time passes.
ClockAdvance(d) ==
  /\ advances < MaxAdvances
  /\ advances' = advances + 1
  /\ now' = now + d
  /\ UNCHANGED <<lastEmbedCallAt, wakeAt, tryNo, callAt>>
  /\ UNCHANGED <<limVars, retVars, mainVars, docVars>>

\* Time passes until the timer of a backoff sleep is due.
ClockToBackoff(j) ==
  /\ advances < MaxAdvances
  /\ jst[j] = "backoff"
  /\ now < wakeAt[j]
  /\ advances' = advances + 1
  /\ now' = wakeAt[j]
  /\ UNCHANGED <<lastEmbedCallAt, wakeAt, tryNo, callAt>>
  /\ UNCHANGED <<limVars, retVars, mainVars, docVars>>

InitEmbedIdle ==
  /\ now = 0
  /\ lastEmbedCallAt = 0
  /\ wakeAt = [j \in Jobs |-> 0]
  /\ tryNo = [j \in Jobs |-> 0]
  /\ callAt = [j \in Jobs |-> NotCalled]
  /\ advances = 0

\* ================================================================== texts
\* A string is kept as a sequence of runs of characters:
\*   k = "ch"  n characters that are no white space and belong to no page
\*             marker: the characters numbered at, at + 1, ..., at + n - 1
\*             of an alphabet in which no two characters are alike
\*   k = "ws"  n white-space characters, numbered likewise
\*   k = "sp"  the single space that replace(/\s+/g, " ") writes
\*   k = "mk"  the characters "[PAGE <d>]", d a sequence of digits
\* No two "ch" runs of a string are adjacent, so two strings are equal
\* exactly when their runs are.  The empty string is <<>>.  Only strings
\* without page marker are chunked.

MinChunkLen == 60          \* if (part.length > 60)
DefaultChunkSize == 900    \* chunkSize = 900; chunkText(p.content, 900, 150)
DefaultOverlap == 150      \* overlap = 150
OcrThreshold == 300        \* if (t.length < 300)
MarkerFrame == 7           \* the characters of "[PAGE " and "]"

Ch(at, n) == [k |-> "ch", at |-> at, n |-> n, d |-> <<>>]
Ws(at, n) == [k |-> "ws", at |-> at, n |-> n, d |-> <<>>]
Sp == [k |-> "sp", at |-> 0, n |-> 1, d |-> <<>>]

\* `[PAGE ${d}]`
Marker(d) == [k |-> "mk", at |-> 0, n |-> MarkerFrame + Len(d), d |-> d]

IsSpace(r) == r.k = "ws" \/ r.k = "sp"

\* s.length
RECURSIVE TextLen(_)
TextLen(s) == IF s = <<>> THEN 0 ELSE Head(s).n + TextLen(Tail(s))

RECURSIVE TrimStart(_)
TrimStart(s) ==
  IF s = <<>> THEN <<>>
  ELSE IF IsSpace(Head(s)) THEN TrimStart(Tail(s)) ELSE s

RECURSIVE TrimEnd(_)
TrimEnd(s) ==
  IF s = <<>> THEN <<>>
  ELSE IF IsSpace(s[Len(s)]) THEN TrimEnd(SubSeq(s, 1, Len(s) - 1)) ELSE s

\* s.trim()
Trim(s) == TrimEnd(TrimStart(s))

\* s.replace(/\s+/g, " "): every maximal stretch of white space becomes one
\* space.
RECURSIVE Normalise(_)
Normalise(s) ==
  IF s = <<>> THEN <<>>
  ELSE IF IsSpace(Head(s)) THEN <<Sp>> \o Normalise(TrimStart(s))
  ELSE <<Head(s)>> \o Normalise(Tail(s))

\* s.slice(a, b) for 0 <= a: the characters at indices a .. b-1 (0-based).
RECURSIVE Slice(_, _, _)
Slice(s, a, b) ==
  IF s = <<>> \/ b <= 0 \/ b <= a THEN <<>>
  ELSE LET r == Head(s)
       IN IF a >= r.n THEN Slice(Tail(s), a - r.n, b - r.n)
          ELSE LET hi == Min(b, r.n)
                   piece == [r EXCEPT !.at = IF r.k = "ch" \/ r.k = "ws"
                                             THEN r.at + a ELSE r.at,
                                      !.n = hi - a]
               IN <<piece>> \o Slice(Tail(s), 0, b - r.n)

\* Number(d) for a sequence of decimal digits.
RECURSIVE NumberOfDigits(_)
NumberOfDigits(d) ==
  IF d = <<>> THEN 0
  ELSE 10 * NumberOfDigits(SubSeq(d, 1, Len(d) - 1)) + d[Len(d)]

\* `${n}` for a number n >= 0.
RECURSIVE DigitsOf(_)
DigitsOf(n) == IF n < 10 THEN <<n>> ELSE DigitsOf(n \div 10) \o <<n % 10>>

\* ======================================== chunkText(text, chunkSize, overlap)

\* A plausible slip: >= for >.
KeepsPartAtLeast(part) == TextLen(part) >= MinChunkLen

\* if (part.length > 60)
KeepsPart(part) == TextLen(part) > MinChunkLen

\* A plausible slip: the window is not clipped to chunkSize characters.
WindowToEnd(c, off, size) == Trim(Slice(c, off, TextLen(c)))

\* const part = clean.slice(i, i + chunkSize).trim()
Window(c, off, size) == Trim(Slice(c, off, off + size))

\* A plausible slip: i += overlap for i += chunkSize - overlap.
ChunkIterationByOverlap(c, off, size, ov, acc) ==
  LET part == Window(c, off, size)
  IN [chunks |-> IF KeepsPart(part) THEN Append(acc, part) ELSE acc,
      offset |-> off + ov]

\* One turn of the while loop at offset off: the chunks and the offset
\* after it.
ChunkIteration(c, off, size, ov, acc) ==
  LET part == Window(c, off, size)
  IN [chunks |-> IF KeepsPart(part) THEN Append(acc, part) ELSE acc,
      offset |-> off + (size - ov)]

\* The while loop from offset off on, for size > ov.
RECURSIVE ChunkLoop(_, _, _, _, _)
ChunkLoop(c, off, size, ov, acc) ==
  IF off < TextLen(c)
  THEN LET n == ChunkIteration(c, off, size, ov, acc)
       IN ChunkLoop(c, n.offset, size, ov, n.chunks)
  ELSE acc

\* chunkText(text, chunkSize, overlap), for chunkSize > overlap.
ChunkText(text, size, ov) == ChunkLoop(Trim(Normalise(text)), 0, size, ov, <<>>)

ChunkUnchanged == UNCHANGED <<limVars, retVars, embVars, mainVars, ocrVars, splVars>>

\* const clean = ...; const chunks = []; let i = 0
ChunkEnter ==
  /\ cpc = "called"
  /\ clean' = Trim(Normalise(cText))
  /\ chunks' = <<>>
  /\ offset' = 0
  /\ turns' = 0
  /\ cpc' = "loop"
  /\ UNCHANGED <<cText, chunkSize, overlap>>
  /\ ChunkUnchanged

\* while (i < clean.length) { ... }: one turn.
ChunkTurn ==
  /\ cpc = "loop"
  /\ offset < TextLen(clean)
  /\ LET n == ChunkIteration(clean, offset, chunkSize, overlap, chunks)
     IN chunks' = n.chunks /\ offset' = n.offset
  /\ turns' = turns + 1
  /\ UNCHANGED <<cpc, cText, chunkSize, overlap, clean>>
  /\ ChunkUnchanged

\* The while test fails: return chunks.
ChunkReturn ==
  /\ cpc = "loop"
  /\ ~(offset < TextLen(clean))
  /\ cpc' = "returned"
  /\ UNCHANGED <<cText, chunkSize, overlap, clean, offset, chunks, turns>>
  /\ ChunkUnchanged

InitChunkIdle ==
  /\ cpc = "idle"
  /\ cText = <<>>
  /\ chunkSize = DefaultChunkSize
  /\ overlap = DefaultOverlap
  /\ clean = <<>>
  /\ offset = 0
  /\ chunks = <<>>
  /\ turns = 0

\* ====================================================== splitByPages(text)

\* text.split(/\[PAGE\s+(\d+)\]/g) from s on, with cur the piece collected
\* so far: the pieces between the markers, each marker's digits in between.
RECURSIVE SplitParts(_, _)
SplitParts(s, cur) ==
  IF s = <<>> THEN <<cur>>
  ELSE IF Head(s).k = "mk"
       THEN <<cur, Head(s).d>> \o SplitParts(Tail(s), <<>>)
       ELSE SplitParts(Tail(s), Append(cur, Head(s)))

\* for (let i = 1; i < parts.length; i += 2) from the digits at position p
\* on (positions count from 1 here): a page is pushed if its trimmed content
\* is not empty.
RECURSIVE PagesFrom(_, _)
PagesFrom(parts, p) ==
  IF p > Len(parts) THEN <<>>
  ELSE LET page == NumberOfDigits(parts[p])
           content == Trim(IF p + 1 <= Len(parts) THEN parts[p + 1] ELSE <<>>)
       IN (IF content # <<>>
           THEN <<[page |-> page, content |-> content]>> ELSE <<>>)
          \o PagesFrom(parts, p + 2)

\* splitByPages(text)
SplitByPages(text) ==
  LET parts == SplitParts(text, <<>>)
      single == <<[page |-> 1, content |-> text]>>
  IN IF Len(parts) <= 1 THEN single
     ELSE LET out == PagesFrom(parts, 2)
          IN IF Len(out) # 0 THEN out ELSE single

\* splitByPages(text) is called and returns.
SplitCall ==
  /\ spc = "called"
  /\ pages' = SplitByPages(splitIn)
  /\ spc' = "returned"
  /\ UNCHANGED splitIn
  /\ UNCHANGED <<limVars, retVars, embVars, mainVars, chkVars, ocrVars>>

InitSplitIdle ==
  /\ spc = "idle"
  /\ splitIn = <<>>
  /\ pages = <<>>

\* ================================= extractTextSmart(pdfBuffer, pdfPath) and
\* ================================= ocrPdfToText(pdfPath)

NoExtract == [text |-> <<>>, usedOcr |-> FALSE]

\* A plausible slip: <= for <.
NeedsOcrAtMost(t) == TextLen(t) <= OcrThreshold

\* if (t.length < 300)
NeedsOcr(t) == TextLen(t) < OcrThreshold

\* fullText += `\n\n[PAGE ${pageNum}]\n${data.text || ""}`
WithPage(full, pageNum, txt) ==
  full \o <<Ws(0, 2), Marker(DigitsOf(pageNum)), Ws(0, 1)>> \o txt

ExtractUnchanged ==
  UNCHANGED <<limVars, retVars, embVars, mainVars, chkVars, splVars>>

\* parsePdf(pdfBuffer) settles with parsed.text = txt (an absent text reads
\* as "").  With fewer than 300 trimmed characters ocrPdfToText is called
\* and createWorker is awaited; otherwise the trimmed text is returned.
ParseDone(ok, txt) ==
  /\ xpc = "parsing"
  /\ IF ~ok
     THEN /\ xpc' = "thrown" /\ xerr' = "parsePdf"
          /\ UNCHANGED <<parsedText, extracted>>
     ELSE /\ parsedText' = txt
          /\ IF NeedsOcr(Trim(txt))
             THEN xpc' = "creatingWorker" /\ UNCHANGED extracted
             ELSE /\ xpc' = "returned"
                  /\ extracted' = [text |-> Trim(txt), usedOcr |-> FALSE]
          /\ UNCHANGED xerr
  /\ UNCHANGED <<worker, tmpDir, images, imgIdx, fullText, recognized>>
  /\ ExtractUnchanged

\* createWorker settles.  Then, in one turn: mkdtempSync, execFileSync
\* pdftoppm and readdirSync (each may throw); n PNG files page-1.png ..
\* page-n.png are found and sorted by number; the first recognize() is
\* awaited, or terminate() if there is no image.
WorkerCreated(ok, made, rastered, listed, n) ==
  /\ xpc = "creatingWorker"
  /\ IF ~ok
     THEN /\ xpc' = "thrown" /\ xerr' = "createWorker"
          /\ UNCHANGED <<worker, tmpDir, images, imgIdx>>
     ELSE /\ worker' = "alive"
          /\ IF ~made
             THEN /\ xpc' = "thrown" /\ xerr' = "mkdtemp"
                  /\ UNCHANGED <<tmpDir, images, imgIdx>>
             ELSE /\ tmpDir' = "present"
                  /\ IF ~rastered \/ ~listed
                     THEN /\ xpc' = "thrown"
                          /\ xerr' = IF ~rastered THEN "pdftoppm" ELSE "readdir"
                          /\ UNCHANGED <<images, imgIdx>>
                     ELSE /\ images' = [p \in 1..n |-> p]
                          /\ imgIdx' = IF n > 0 THEN 1 ELSE 0
                          /\ xpc' = IF n > 0 THEN "recognizing" ELSE "terminating"
                          /\ UNCHANGED xerr
  /\ UNCHANGED <<parsedText, fullText, recognized, extracted>>
  /\ ExtractUnchanged

\* worker.recognize(imgPath) settles with data.text = txt; the page is
\* appended under its marker; the next image is recognised, or terminate()
\* is awaited after the last one.
RecognizeDone(ok, txt) ==
  /\ xpc = "recognizing"
  /\ IF ~ok
     THEN /\ xpc' = "thrown" /\ xerr' = "recognize"
          /\ UNCHANGED <<imgIdx, fullText, recognized>>
     ELSE /\ fullText' = WithPage(fullText, images[imgIdx], txt)
          /\ recognized' = Append(recognized, txt)
          /\ IF imgIdx < Len(images)
             THEN imgIdx' = imgIdx + 1 /\ xpc' = "recognizing"
             ELSE imgIdx' = imgIdx /\ xpc' = "terminating"
          /\ UNCHANGED xerr
  /\ UNCHANGED <<parsedText, worker, tmpDir, images, extracted>>
  /\ ExtractUnchanged

\* worker.terminate() settles.  Then rmSync runs inside try {} catch {}, so
\* its failure is dropped; ocrPdfToText returns fullText.trim() and
\* extractTextSmart returns it with usedOcr = true.
TerminateDone(ok, removed) ==
  /\ xpc = "terminating"
  /\ IF ~ok
     THEN /\ xpc' = "thrown" /\ xerr' = "terminate"
          /\ UNCHANGED <<worker, tmpDir, extracted>>
     ELSE /\ worker' = "terminated"
          /\ tmpDir' = IF removed THEN "removed" ELSE "removeFailed"
          /\ extracted' = [text |-> Trim(fullText), usedOcr |-> TRUE]
          /\ xpc' = "returned"
          /\ UNCHANGED xerr
  /\ UNCHANGED <<parsedText, images, imgIdx, fullText, recognized>>
  /\ ExtractUnchanged

\* main(), line 281: pages = usedOcr ? splitByPages(text)
\*                                   : [{ page: 1, content: text }]
SplitDocument ==
  /\ xpc = "returned"
  /\ xpc' = "paged"
  /\ pages' = IF extracted.usedOcr THEN SplitByPages(extracted.text)
              ELSE <<[page |-> 1, content |-> extracted.text]>>
  /\ UNCHANGED <<parsedText, worker, tmpDir, images, imgIdx, fullText,
                 recognized, extracted, xerr>>
  /\ UNCHANGED <<spc, splitIn>>
  /\ UNCHANGED <<limVars, retVars, embVars, mainVars, chkVars>>

InitExtractIdle ==
  /\ parsedText = <<>>
  /\ worker = "none"
  /\ tmpDir = "none"
  /\ images = <<>>
  /\ imgIdx = 0
  /\ fullText = <<>>
  /\ recognized = <<>>
  /\ extracted = NoExtract
  /\ xerr = "none"

\* ================================================================== main()

NotExited == 0 - 1

NoRow == [source |-> 0, pos |-> 0, page |-> 0, chunk_index |-> 0, chunk |-> <<>>]

NoEmbed == [resp |-> "none", outcome |-> "none"]

NoFault == [embeds |-> 0, inserts |-> 0, rows |-> 0, stage |-> "none"]

MainUnchanged == UNCHANGED <<limVars, retVars, embVars, docVars>>

\* A failure is met: the history records it, with the counts at that time
\* and the await main() was suspended at.
Fault ==
  /\ faults' = faults + 1
  /\ atFault' = IF faults = 0
                THEN [embeds |-> embedsStarted, inserts |-> insertsIssued,
                      rows |-> nRows, stage |-> mpc]
                ELSE atFault

\* A plausible slip: toVectorLiteral as src/lib/rag.ts has it, without the
\* test for an empty vector.
VectorLiteralUnchecked(v) == TRUE

\* toVectorLiteral(v): throws unless v is a non-empty array.
VectorLiteralOk(v) == v = "vec"

\* A plausible slip: chunk_index is taken from a counter that runs over the
\* whole file instead of idx.
RowWithRunningIndex(f, pos, page, idx, ch) ==
  [source |-> f, pos |-> pos, page |-> page,
   chunk_index |-> IF lastRow.source = f /\ nRows > 0
                   THEN lastRow.chunk_index + 1 ELSE 0,
   chunk |-> ch]

\* The row of `INSERT ... VALUES ($1, $2, $3, $4, $5)` with [file, p.page,
\* idx, ch, vecLit]; pos, the page's position in `pages`, is kept for the
\* history only.
RowFor(f, pos, page, idx, ch) ==
  [source |-> f, pos |-> pos, page |-> page, chunk_index |-> idx, chunk |-> ch]

\* main() up to its first await: without DATABASE_URL it throws; otherwise
\* the client is made and db.connect() is awaited.
MainStart(hasDbUrl) ==
  /\ mpc = "start"
  /\ IF hasDbUrl
     THEN /\ mpc' = "connecting"
          /\ dbOpens' = dbOpens + 1
          /\ UNCHANGED <<faults, atFault>>
     ELSE /\ mpc' = "rejected"
          /\ Fault
          /\ UNCHANGED dbOpens
  /\ UNCHANGED <<exitCode, nFiles, fi, usedOcr, nPages, pi, pageNo, pContent,
                 pageChunks, nChunks, ci, nRows, lastRow, dbEnds,
                 embedsStarted, insertsIssued, chunksMade, filesDone,
                 lastEmbed>>
  /\ MainUnchanged

\* db.connect() settles; on success ensureSchema(db) is awaited.
ConnectDone(ok) ==
  /\ mpc = "connecting"
  /\ IF ok
     THEN mpc' = "schema" /\ UNCHANGED <<faults, atFault>>
     ELSE mpc' = "rejected" /\ Fault
  /\ UNCHANGED <<exitCode, nFiles, fi, usedOcr, nPages, pi, pageNo, pContent,
                 pageChunks, nChunks, ci, nRows, lastRow, dbOpens, dbEnds,
                 embedsStarted, insertsIssued, chunksMade, filesDone,
                 lastEmbed>>
  /\ MainUnchanged

\* ensureSchema(db) settles; on success the directory is listed (readdirSync
\* may throw).  With no PDF, db.end() is awaited; otherwise the file loop is
\* entered.
SchemaDone(ok, listed, n) ==
  /\ mpc = "schema"
  /\ IF ok /\ listed
     THEN /\ nFiles' = n
          /\ IF n = 0
             THEN mpc' = "closing" /\ dbEnds' = dbEnds + 1
             ELSE mpc' = "file" /\ UNCHANGED dbEnds
          /\ UNCHANGED <<faults, atFault>>
     ELSE /\ mpc' = "rejected"
          /\ Fault
          /\ UNCHANGED <<nFiles, dbEnds>>
  /\ UNCHANGED <<exitCode, fi, usedOcr, nPages, pi, pageNo, pContent,
                 pageChunks, nChunks, ci, nRows, lastRow, dbOpens,
                 embedsStarted, insertsIssued, chunksMade, filesDone,
                 lastEmbed>>
  /\ MainUnchanged

\* for (const file of files): the next file, if any, is read (readFileSync
\* may throw) and extractTextSmart is awaited; after the last one db.end()
\* is awaited.
FileStep(readOk) ==
  /\ mpc = "file"
  /\ IF fi < nFiles
     THEN IF readOk
          THEN /\ fi' = fi + 1
               /\ mpc' = "extracting"
               /\ UNCHANGED <<dbEnds, faults, atFault>>
          ELSE /\ mpc' = "rejected"
               /\ Fault
               /\ UNCHANGED <<fi, dbEnds>>
     ELSE /\ mpc' = "closing"
          /\ dbEnds' = dbEnds + 1
          /\ UNCHANGED <<fi, faults, atFault>>
  /\ UNCHANGED <<exitCode, nFiles, usedOcr, nPages, pi, pageNo, pContent,
                 pageChunks, nChunks, ci, nRows, lastRow, dbOpens,
                 embedsStarted, insertsIssued, chunksMade, filesDone,
                 lastEmbed>>
  /\ MainUnchanged

\* extractTextSmart settles.  pages = usedOcr ? splitByPages(text) :
\* [{ page: 1, content: text }]: n pages (one without OCR).
ExtractDone(ok, ocr, n) ==
  /\ mpc = "extracting"
  /\ IF ok
     THEN /\ usedOcr' = ocr
          /\ nPages' = IF ocr THEN n ELSE 1
          /\ pi' = 0
          /\ mpc' = "page"
          /\ UNCHANGED <<faults, atFault>>
     ELSE /\ mpc' = "rejected"
          /\ Fault
          /\ UNCHANGED <<usedOcr, nPages, pi>>
  /\ UNCHANGED <<exitCode, nFiles, fi, pageNo, pContent, pageChunks, nChunks,
                 ci, nRows, lastRow, dbOpens, dbEnds, embedsStarted,
                 insertsIssued, chunksMade, filesDone, lastEmbed>>
  /\ MainUnchanged

\* for (const p of pages): the next page, with its number and its content
\* txt, is chunked; after the last page the file is done.  Without OCR the
\* only page has number 1 and its content is the trimmed native text, which
\* is no shorter than the OCR threshold.
PageStep(page, txt) ==
  /\ mpc = "page"
  /\ IF pi < nPages
     THEN /\ (usedOcr \/ (page = 1 /\ ~NeedsOcr(txt) /\ Trim(txt) = txt))
          /\ pi' = pi + 1
          /\ pageNo' = page
          /\ pContent' = txt
          /\ pageChunks' = ChunkText(txt, DefaultChunkSize, DefaultOverlap)
          /\ nChunks' = Len(pageChunks')
          /\ ci' = 0
          /\ chunksMade' = chunksMade + Len(pageChunks')
          /\ mpc' = "chunk"
          /\ UNCHANGED filesDone
     ELSE /\ filesDone' = filesDone + 1
          /\ mpc' = "file"
          /\ UNCHANGED <<pi, pageNo, pContent, pageChunks, nChunks, ci,
                         chunksMade>>
  /\ UNCHANGED <<exitCode, nFiles, fi, usedOcr, nPages, nRows, lastRow,
                 dbOpens, dbEnds, embedsStarted, insertsIssued, lastEmbed,
                 faults, atFault>>
  /\ MainUnchanged

\* for (let idx = 0; idx < chunks.length; idx++): embed(ch) is awaited for
\* the next chunk; after the last one the page is done.
ChunkStep ==
  /\ mpc = "chunk"
  /\ IF ci < nChunks
     THEN /\ mpc' = "embedding"
          /\ embedsStarted' = embedsStarted + 1
     ELSE /\ mpc' = "page"
          /\ UNCHANGED embedsStarted
  /\ UNCHANGED <<exitCode, nFiles, fi, usedOcr, nPages, pi, pageNo, pContent,
                 pageChunks, nChunks, ci, nRows, lastRow, dbOpens, dbEnds,
                 insertsIssued, chunksMade, filesDone, lastEmbed, faults,
                 atFault>>
  /\ MainUnchanged

\* embed(ch) settles.  The outbound call threw ("throw") or the service's
\* response carries a vector ("vec"), none ("novec") or an empty one
\* ("emptyvec"): embed() rejects or fulfils as EmbedOutcome says; on what it
\* fulfilled with toVectorLiteral may throw; with a vector literal the
\* INSERT is awaited.
EmbedDone(v) ==
  /\ mpc = "embedding"
  /\ lastEmbed' = [resp |-> v, outcome |-> EmbedOutcome(v)]
  /\ IF EmbedOutcome(v) = "ok" /\ VectorLiteralOk(v)
     THEN /\ mpc' = "inserting"
          /\ insertsIssued' = insertsIssued + 1
     ELSE /\ mpc' = "rejected"
          /\ UNCHANGED insertsIssued
  /\ IF v = "vec" THEN UNCHANGED <<faults, atFault>> ELSE Fault
  /\ UNCHANGED <<exitCode, nFiles, fi, usedOcr, nPages, pi, pageNo, pContent,
                 pageChunks, nChunks, ci, nRows, lastRow, dbOpens, dbEnds,
                 embedsStarted, chunksMade, filesDone>>
  /\ MainUnchanged

\* The INSERT settles: the row is in the table, and idx++; or it failed.
InsertDone(ok) ==
  /\ mpc = "inserting"
  /\ IF ok
     THEN /\ nRows' = nRows + 1
          /\ lastRow' = RowFor(fi, pi, pageNo, ci, pageChunks[ci + 1])
          /\ ci' = ci + 1
          /\ mpc' = "chunk"
          /\ UNCHANGED <<faults, atFault>>
     ELSE /\ mpc' = "rejected"
          /\ Fault
          /\ UNCHANGED <<nRows, lastRow, ci>>
  /\ UNCHANGED <<exitCode, nFiles, fi, usedOcr, nPages, pi, pageNo, pContent,
                 pageChunks, nChunks, dbOpens, dbEnds, embedsStarted,
                 insertsIssued, chunksMade, filesDone, lastEmbed>>
  /\ MainUnchanged

\* db.end() settles: main() returns and the process ends with code 0; or it
\* failed.
CloseDone(ok) ==
  /\ mpc = "closing"
  /\ IF ok
     THEN /\ mpc' = "exited"
          /\ exitCode' = 0
          /\ UNCHANGED <<faults, atFault>>
     ELSE /\ mpc' = "rejected"
          /\ Fault
          /\ UNCHANGED exitCode
  /\ UNCHANGED <<nFiles, fi, usedOcr, nPages, pi, pageNo, pContent, pageChunks,
                 nChunks, ci, nRows, lastRow, dbOpens, dbEnds, embedsStarted,
                 insertsIssued, chunksMade, filesDone, lastEmbed>>
  /\ MainUnchanged

\* main().catch((e) => { console.error(e); process.exit(1); })
CatchExit ==
  /\ mpc = "rejected"
  /\ mpc' = "exited"
  /\ exitCode' = 1
  /\ UNCHANGED <<nFiles, fi, usedOcr, nPages, pi, pageNo, pContent, pageChunks,
                 nChunks, ci, nRows, lastRow, dbOpens, dbEnds, embedsStarted,
                 insertsIssued, chunksMade, filesDone, lastEmbed, faults,
                 atFault>>
  /\ MainUnchanged

InitMainCounters ==
  /\ exitCode = NotExited
  /\ nFiles = 0
  /\ fi = 0
  /\ usedOcr = FALSE
  /\ nPages = 0
  /\ pi = 0
  /\ pageNo = 0
  /\ pContent = <<>>
  /\ pageChunks = <<>>
  /\ nChunks = 0
  /\ ci = 0
  /\ nRows = 0
  /\ lastRow = NoRow
  /\ dbOpens = 0
  /\ dbEnds = 0
  /\ embedsStarted = 0
  /\ insertsIssued = 0
  /\ chunksMade = 0
  /\ filesDone = 0
  /\ lastEmbed = NoEmbed
  /\ faults = 0
  /\ atFault = NoFault

InitMainIdle ==
  /\ mpc = "idle"
  /\ InitMainCounters

\* ======================================================= specifications

InitDocIdle ==
  /\ InitChunkIdle
  /\ xpc = "idle"
  /\ InitExtractIdle
  /\ InitSplitIdle

InitLimiter ==
  /\ max \in 1..MaxLimit
  /\ InitLimiterIdle
  /\ InitRetryIdle
  /\ InitEmbedIdle
  /\ InitMainIdle
  /\ InitDocIdle

NextLimiter ==
  \/ LimitSubmit
  \/ \E j \in Jobs, o \in {"ok", "err"} : FnSettle(j, o)
  \/ \E j \in Jobs : JobContinue(j)

SpecLimiter == InitLimiter /\ [][NextLimiter]_vars

\* Every started fn settles, and a microtask that is ready runs.
SpecLimiterFair ==
  /\ SpecLimiter
  /\ \A j \in Jobs : WF_vars(\E o \in {"ok", "err"} : FnSettle(j, o))
  /\ \A j \in Jobs : WF_vars(JobContinue(j))

\* withRetry(fn, tries) has been called: the loop is entered and the first
\* fn() is awaited.
InitRetry ==
  /\ tries \in 1..DefaultTries
  /\ attempt = 0
  /\ rpc = "call"
  /\ lastErr = NoErr
  /\ wait = 0
  /\ slept = 0
  /\ result = [kind |-> "none", val |-> "", err |-> NoErr]
  /\ calls = 1
  /\ sleeps = 0
  /\ obs = NoObs
  /\ max = 1
  /\ InitLimiterIdle
  /\ InitEmbedIdle
  /\ InitMainIdle
  /\ InitDocIdle

NextRetry ==
  \/ \E v \in Responses : FnResolves(v)
  \/ \E e \in Errors, jitter \in JitterValues : FnRejects(e, jitter)
  \/ \E late \in TimerLateness : TimerFires(late)

SpecRetry == InitRetry /\ [][NextRetry]_vars

\* The script has been loaded: limitEmbed = createLimiter(Math.max(1,
\* EMBED_CONCURRENCY)), lastEmbedCallAt = 0, and the clock reads far more
\* than the delay (Date.now() counts from 1970).
InitEmbed ==
  /\ max = Max(1, EMBED_CONCURRENCY)
  /\ InitLimiterIdle
  /\ InitRetryIdle
  /\ now = 10 * EMBED_MIN_DELAY_MS
  /\ lastEmbedCallAt = 0
  /\ wakeAt = [j \in Jobs |-> 0]
  /\ tryNo = [j \in Jobs |-> 0]
  /\ callAt = [j \in Jobs |-> NotCalled]
  /\ advances = 0
  /\ InitMainIdle
  /\ InitDocIdle

\* The rate-limit failures the embedding service answers with.
RateLimits == {[status |-> "429", rstatus |-> "undef", ra |-> "undef"]}

NextEmbed ==
  \/ EmbedSubmit
  \/ \E j \in Jobs : PaceWake(j)
  \/ \E j \in Jobs, r \in Responses \cup {"throw"} : EmbedCallSettles(j, r)
  \/ \E j \in Jobs : EmbedContinue(j)
  \/ \E j \in Jobs, e \in RateLimits : EmbedRateLimited(j, e, 0)
  \/ \E j \in Jobs : EmbedBackoffOver(j)
  \/ \E d \in ClockSteps : ClockAdvance(d)
  \/ \E j \in Jobs : ClockToBackoff(j)

SpecEmbed == InitEmbed /\ [][NextEmbed]_vars

\* The texts the specifications draw their inputs from.
\* A text of len characters after `lead` white-space characters and before
\* `trail` more; gapLen of the len characters, from index gapAt on (0-based,
\* inside the text), are white space.
MakeText(lead, len, gapAt, gapLen, trail) ==
  (IF lead > 0 THEN <<Ws(1, lead)>> ELSE <<>>)
  \o (IF len = 0 THEN <<>>
      ELSE IF gapLen > 0 /\ gapAt > 0 /\ gapAt + gapLen < len
      THEN <<Ch(lead + 1, gapAt), Ws(lead + 1 + gapAt, gapLen),
             Ch(lead + 1 + gapAt + gapLen, len - gapAt - gapLen)>>
      ELSE <<Ch(lead + 1, len)>>)
  \o (IF trail > 0 THEN <<Ws(lead + len + 1, trail)>> ELSE <<>>)

\* What pdf-parse may return as parsed.text: lengths on both sides of the
\* threshold, with and without white space around and inside.
NativeTexts ==
  {MakeText(lead, len, gapAt, 1, trail) :
     lead \in {0, 2}, trail \in {0, 1}, gapAt \in {0, 7},
     len \in {0, 50, OcrThreshold - 1, OcrThreshold, OcrThreshold + 1, 5000}}

\* What worker.recognize may return as data.text for page p: nothing, white
\* space only, a long line, words with white space around, and a page that
\* shows the characters of a page marker itself.
OcrTexts(p) ==
  {<<>>,
   <<Ws(100 * p, 2)>>,
   <<Ch(100 * p, 70)>>,
   <<Ws(100 * p, 1), Ch(100 * p + 1, 5), Ws(100 * p + 6, 1),
     Ch(100 * p + 7, 3), Ws(100 * p + 10, 2)>>,
   <<Ch(100 * p, 4), Ws(100 * p + 4, 1), Marker(<<2>>), Ch(100 * p + 5, 4)>>}

\* extractTextSmart(pdfBuffer, pdfPath) has been called and parsePdf is
\* awaited.
InitExtract ==
  /\ xpc = "parsing"
  /\ InitExtractIdle
  /\ InitChunkIdle
  /\ InitSplitIdle
  /\ max = 1
  /\ InitLimiterIdle
  /\ InitRetryIdle
  /\ InitEmbedIdle
  /\ InitMainIdle

NextExtract ==
  \/ \E ok \in BOOLEAN, txt \in NativeTexts : ParseDone(ok, txt)
  \/ \E ok \in BOOLEAN, made \in BOOLEAN, rastered \in BOOLEAN,
        listed \in BOOLEAN, n \in 0..MaxImages :
       WorkerCreated(ok, made, rastered, listed, n)
  \/ \E ok \in BOOLEAN, txt \in OcrTexts(imgIdx) : RecognizeDone(ok, txt)
  \/ \E ok \in BOOLEAN, removed \in BOOLEAN : TerminateDone(ok, removed)
  \/ SplitDocument

SpecExtract == InitExtract /\ [][NextExtract]_vars

\* The texts given to splitByPages on its own: every sequence of at most
\* MaxSplitRuns runs, among them markers for the pages 0, 1 and 2.
SplitRuns == {Ch(1, 3), Ws(5, 1), Marker(<<0>>), Marker(<<1>>), Marker(<<2>>)}

SplitTexts ==
  {s \in UNION {[1..n -> SplitRuns] : n \in 0..MaxSplitRuns} :
     \A p \in 1..(Len(s) - 1) : ~(s[p].k = "ch" /\ s[p + 1].k = "ch")}

\* splitByPages(text) has been called.
InitSplit ==
  /\ spc = "called"
  /\ splitIn \in SplitTexts
  /\ pages = <<>>
  /\ xpc = "idle"
  /\ InitExtractIdle
  /\ InitChunkIdle
  /\ max = 1
  /\ InitLimiterIdle
  /\ InitRetryIdle
  /\ InitEmbedIdle
  /\ InitMainIdle

NextSplit == SplitCall

SpecSplit == InitSplit /\ [][NextSplit]_vars

\* The parameters chunkText is called with: the defaults, two small
\* windows, and the largest overlap a window admits (a step of 1).
ChunkParams ==
  {[size |-> DefaultChunkSize, ov |-> DefaultOverlap],
   [size |-> 70, ov |-> 5],
   [size |-> 64, ov |-> 0],
   [size |-> 62, ov |-> 61]}

\* Text lengths around the ends of the windows of chunkText(., size, ov).
ChunkLens(size, ov) ==
  {0, 1, MinChunkLen, MinChunkLen + 1, size - 1, size, size + 1}
  \cup {w * (size - ov) + d :
          w \in 1..MaxWindows, d \in {0, 1, MinChunkLen, MinChunkLen + 1}}

\* Where the white space inside a text starts: nowhere, or at the ends of
\* the first window and at the start of the second.
ChunkGaps(size, ov) == {0, size - ov - 1, size - ov, size - 1, size}

\* chunkText(text, chunkSize, overlap) has been called.
InitChunk ==
  /\ cpc = "called"
  /\ \E q \in ChunkParams :
       /\ chunkSize = q.size
       /\ overlap = q.ov
       /\ \E len \in ChunkLens(q.size, q.ov), gapAt \in ChunkGaps(q.size, q.ov),
             gapLen \in {1, 3}, pad \in {0, 1} :
            cText = MakeText(pad, len, gapAt, gapLen, pad)
  /\ clean = <<>>
  /\ offset = 0
  /\ chunks = <<>>
  /\ turns = 0
  /\ xpc = "idle"
  /\ InitExtractIdle
  /\ InitSplitIdle
  /\ max = 1
  /\ InitLimiterIdle
  /\ InitRetryIdle
  /\ InitEmbedIdle
  /\ InitMainIdle

NextChunk ==
  \/ ChunkEnter
  \/ ChunkTurn
  \/ ChunkReturn

SpecChunk == InitChunk /\ [][NextChunk]_vars

\* chunkText is synchronous code: once called it runs on.
SpecChunkFair == SpecChunk /\ WF_vars(NextChunk)

\* The page contents the driver meets: one that is MinChunkLen characters
\* long once its white space is normalised, one that is one longer, one at
\* the OCR threshold, and those long enough for 2 .. MaxChunks chunks.
PageContents ==
  {MakeText(0, MinChunkLen + 2, 7, 3, 0)}
  \cup {MakeText(0, len, 0, 0, 0) :
          len \in {MinChunkLen + 1, OcrThreshold}
                 \cup {w * (DefaultChunkSize - DefaultOverlap) + MinChunkLen + 1 :
                         w \in 1..(MaxChunks - 1)}}

\* The script has been loaded and main() is about to be called.
Init ==
  /\ mpc = "start"
  /\ InitMainCounters
  /\ max = Max(1, EMBED_CONCURRENCY)
  /\ InitLimiterIdle
  /\ InitRetryIdle
  /\ InitEmbedIdle
  /\ InitDocIdle

Next ==
  \/ \E b \in BOOLEAN : MainStart(b)
  \/ \E ok \in BOOLEAN : ConnectDone(ok)
  \/ \E ok \in BOOLEAN, listed \in BOOLEAN, n \in 0..MaxFiles :
       SchemaDone(ok, listed, n)
  \/ \E readOk \in BOOLEAN : FileStep(readOk)
  \/ \E ok \in BOOLEAN, ocr \in BOOLEAN, n \in 1..MaxPages :
       ExtractDone(ok, ocr, n)
  \/ \E page \in 1..MaxPages, txt \in PageContents : PageStep(page, txt)
  \/ ChunkStep
  \/ \E v \in Responses \cup {"throw"} : EmbedDone(v)
  \/ \E ok \in BOOLEAN : InsertDone(ok)
  \/ \E ok \in BOOLEAN : CloseDone(ok)
  \/ CatchExit

Spec == Init /\ [][Next]_vars

\* =============================================================== claims

Running == {j \in Jobs : jst[j] = "running"}

\* C1: the number of fn operations started and not yet settled never exceeds
\* max (nor does the limiter's own count of occupied slots).
C1_InFlightAtMostMax ==
  /\ Cardinality(Running) <= max
  /\ active <= max

\* C1 witness: every slot is taken by an unsettled fn while a later
\* submission is held in the queue.
C1_Witness ==
  /\ Cardinality(Running) = max
  /\ Len(queue) > 0

\* C7: fn operations are started in submission order: the k-th started job
\* is the k-th submitted one, so no job starts before an earlier submission.
C7_Fifo ==
  \A k \in 1..Len(startOrder) : startOrder[k] = k

\* C7 witness: two submissions sat in the queue together, the earlier one has
\* been started from it and the later one is still held back.
C7_Witness ==
  \E a, b \in waited :
    /\ a < b
    /\ \E k \in 1..Len(startOrder) : startOrder[k] = a
    /\ \E k \in 1..Len(queue) : queue[k] = b

\* C8: every submitted operation is eventually started and its promise
\* settles with the operation's own outcome, given that started operations
\* settle; rejections free their slot like fulfilments.
C8_EveryJobSettles ==
  \A j \in Jobs :
    (jst[j] # "new") ~> (jst[j] = "done" /\ pres[j] = fres[j] /\ pres[j] # "pending")

\* C8 witness: a job that had to wait behind a rejected one has completed.
C8_Witness ==
  \E a, b \in Jobs :
    /\ a < b
    /\ b \in waited
    /\ fres[a] = "err" /\ jst[a] = "done"
    /\ jst[b] = "done" /\ pres[b] = fres[b]
\* min(60 s, 1 s * 2^idx), in ms, as the claims state it.
StatedBackoff(idx) == IF 1000 * 2^idx < 60000 THEN 1000 * 2^idx ELSE 60000

\* C3: a failure that is no rate-limit signal is propagated as it is, at
\* once: no sleep and no further invocation follow it; and every invocation
\* after the first follows a rate-limited failure.
C3_OtherFailurePropagates ==
  /\ obs.otherFails > 0 =>
       /\ ~RateLimited(obs.lastFail)
       /\ rpc = "thrown"
       /\ result.kind = "err" /\ result.err = obs.lastFail
       /\ calls = obs.callsAtOther
       /\ sleeps = obs.sleepsAtOther
       /\ obs.otherFails = 1
  /\ calls <= obs.rlFails + 1
  /\ sleeps = obs.rlFails

\* C3 witness: after two rate-limited failures the third attempt failed with
\* a status 500 and withRetry threw it.
C3_Witness ==
  /\ rpc = "thrown"
  /\ obs.otherFails = 1
  /\ obs.rlFails = 2
  /\ result.err.status = "500"

\* C4: after k rate-limited failures and a success withRetry returns the
\* success value, having invoked the operation k+1 times; and the sleep
\* before attempt j+2 lasted at least the backoff for index j.
C4_SuccessAfterRateLimits ==
  /\ rpc = "returned" =>
       /\ result.kind = "ok" /\ result.val = obs.okVal
       /\ calls = obs.rlFails + 1
       /\ obs.rlFails < tries
       /\ obs.otherFails = 0
  /\ (rpc \in {"call", "returned"} /\ attempt > 0) =>
       /\ slept >= wait
       /\ wait >= StatedBackoff(attempt - 1)
       /\ calls = attempt + 1

\* C4 witness: with the default 8 attempts, seven rate-limited failures and
\* then a success.
C4_Witness ==
  /\ rpc = "returned"
  /\ tries = 8
  /\ obs.rlFails = 7
  /\ calls = 8

\* C5: when every attempt is rate-limited the operation is invoked exactly
\* `tries` times, never more, and the last failure is thrown.
C5_ExhaustionThrowsLast ==
  /\ calls <= tries
  /\ (rpc = "thrown" /\ obs.otherFails = 0) =>
       /\ calls = tries
       /\ obs.rlFails = tries
       /\ result.kind = "err" /\ result.err = obs.lastFail

\* C5 witness: eight rate-limited failures with the default 8 attempts.
C5_Witness ==
  /\ rpc = "thrown"
  /\ tries = 8
  /\ obs.otherFails = 0
  /\ calls = 8

\* C6: the wait after a rate-limited failure of attempt index i lies in
\* [backoff, backoff + 500] without a usable retry-after, and equals
\* max(backoff + jitter, 1000 * r) with a retry-after of r > 0 seconds.
C6_WaitBounds ==
  rpc = "sleep" =>
    LET b == StatedBackoff(attempt)
        r == NumberOf(lastErr.ra)
        usable == lastErr.ra \notin {"undef", ""} /\ ~r.nan /\ r.val > 0
    IN /\ obs.jitter >= 0 /\ obs.jitter <= 500
       /\ ~usable => (b <= wait /\ wait <= b + 500 /\ wait = b + obs.jitter)
       /\ usable =>
            /\ wait = IF b + obs.jitter >= 1000 * r.val
                      THEN b + obs.jitter ELSE 1000 * r.val
            /\ wait >= b
            /\ wait >= 1000 * r.val

\* C6 witness: a server-provided delay of 70 s outweighs the capped backoff
\* of attempt index 6.
C6_Witness ==
  /\ rpc = "sleep"
  /\ attempt = 6
  /\ lastErr.ra = "70"
  /\ wait = 70000
\* C2: the start times of any two outbound embedding calls differ by at
\* least the minimum inter-call delay, whatever the interleaving of embed()
\* callers.
C2_CallsSpaced ==
  \A a, b \in Jobs :
    (a # b /\ callAt[a] # NotCalled /\ callAt[b] # NotCalled) =>
      \/ callAt[a] - callAt[b] >= EMBED_MIN_DELAY_MS
      \/ callAt[b] - callAt[a] >= EMBED_MIN_DELAY_MS
\* Row a comes before row b in (file, page position, chunk index) order.
RowBefore(a, b) ==
  \/ a.source < b.source
  \/ a.source = b.source /\ a.pos < b.pos
  \/ a.source = b.source /\ a.pos = b.pos /\ a.chunk_index < b.chunk_index

\* C9: rows are inserted in (file, page, chunk index) order, files and pages
\* in the order the driver meets them; within a (file, page) the chunk_index
\* values are 0, 1, ..., n-1 without gap or repeat; and a chunk's embed and
\* insert are both over before the next chunk's embed starts.
C9_InsertOrder ==
  /\ [](/\ nRows <= insertsIssued
        /\ insertsIssued <= embedsStarted
        /\ embedsStarted <= nRows + 1
        /\ mpc = "embedding" => (insertsIssued = nRows /\ embedsStarted = nRows + 1)
        /\ (mpc \in {"chunk", "embedding", "inserting"} /\ ci > 0) =>
             (lastRow.source = fi /\ lastRow.pos = pi /\ lastRow.page = pageNo
                /\ lastRow.chunk_index = ci - 1)
        /\ (mpc = "page" /\ pi > 0 /\ nChunks > 0) =>
             (lastRow.source = fi /\ lastRow.pos = pi
                /\ lastRow.chunk_index = nChunks - 1))
  /\ [][/\ lastRow' # lastRow => nRows' # nRows
        /\ nRows' # nRows =>
             /\ nRows' = nRows + 1
             /\ embedsStarted = nRows'
             /\ lastRow'.source = fi /\ lastRow'.page = pageNo
             /\ nRows > 0 => RowBefore(lastRow, lastRow')
             /\ lastRow'.chunk_index =
                  IF nRows > 0 /\ lastRow.source = lastRow'.source
                               /\ lastRow.pos = lastRow'.pos
                  THEN lastRow.chunk_index + 1 ELSE 0]_vars

\* C9 witness: the second chunk of the second page of the second file has
\* been inserted after rows of the first file.
C9_Witness ==
  /\ nRows >= 4
  /\ lastRow.source = 2 /\ lastRow.pos = 2 /\ lastRow.chunk_index = 1

\* C10: a failure at any stage aborts the run: nothing is embedded or
\* inserted after it and the process ends with a non-zero exit code; exit
\* code 0 is reached only with every file fully processed.
C10_FailureAborts ==
  /\ faults > 0 =>
       /\ faults = 1
       /\ mpc \in {"rejected", "exited"}
       /\ exitCode # 0
       /\ embedsStarted = atFault.embeds
       /\ insertsIssued = atFault.inserts
       /\ nRows = atFault.rows
  /\ mpc = "rejected" => ENABLED CatchExit
  /\ mpc = "exited" => (exitCode \in {0, 1} /\ (exitCode = 1 <=> faults > 0))
  /\ exitCode = 0 =>
       /\ faults = 0
       /\ fi = nFiles /\ filesDone = nFiles
       /\ nRows = chunksMade

\* C10 witness: an insert failed after rows had been written, with a file
\* still to come, and the process has ended with code 1.
C10_Witness ==
  /\ mpc = "exited" /\ exitCode = 1
  /\ faults = 1
  /\ nRows >= 1
  /\ insertsIssued = nRows + 1
  /\ fi < nFiles

\* The failure, if any, came after db.connect() had succeeded.
FailedWhileConnected == faults > 0 /\ atFault.stage \notin {"start", "connecting"}

\* C11: the database connection is opened exactly once per run, and db.end()
\* has been called whenever the run ends with the connection open: on normal
\* completion, on the no-files return, and on any failure after the
\* connection was opened.
C11_ConnectionClosed ==
  /\ dbOpens <= 1
  /\ dbEnds <= dbOpens
  /\ (mpc = "exited" /\ (faults = 0 \/ FailedWhileConnected)) =>
       (dbOpens = 1 /\ dbEnds = 1)

\* Control has left ocrPdfToText: it returned, or one of its steps threw.
OcrExited ==
  \/ xpc \in {"returned", "paged"} /\ extracted.usedOcr
  \/ xpc = "thrown" /\ xerr \notin {"none", "parsePdf"}

\* C12: whenever control has left the OCR sub-pipeline, by success or by a
\* failure of any step, the recognition worker is not left alive, the
\* temporary directory is not left in place without a removal attempt, and
\* the failure that left it is not a failure of the cleanup itself.
C12_OcrCleansUp ==
  OcrExited =>
    /\ worker # "alive"
    /\ tmpDir # "present"
    /\ xerr # "terminate"

\* C13: for a text shorter than chunkSize, chunkText returns at most one
\* chunk: the white-space-normalised, trimmed text if that is longer than 60
\* characters, and nothing otherwise.
C13_ShortTextOneChunk ==
  (cpc = "returned" /\ TextLen(cText) < chunkSize) =>
    LET whole == Trim(Normalise(cText))
    IN /\ Len(chunks) <= 1
       /\ chunks = IF TextLen(whole) > 60 THEN <<whole>> ELSE <<>>

\* The last n characters of a text.
LastChars(s, n) == Slice(s, TextLen(s) - n, TextLen(s))

\* The first n characters of a text.
FirstChars(s, n) == Slice(s, 0, n)

\* C14: the windows start at 0, step, 2 * step, ... with step = chunkSize -
\* overlap, and of any two consecutive emitted chunks the last `overlap`
\* characters of the earlier are the first `overlap` characters of the
\* later.
C14_WindowsAndOverlap ==
  /\ cpc \in {"loop", "returned"} =>
       (offset >= 0 /\ offset % (chunkSize - overlap) = 0)
  /\ \A c \in 1..(Len(chunks) - 1) :
       /\ TextLen(chunks[c]) >= overlap
       /\ TextLen(chunks[c + 1]) >= overlap
       /\ LastChars(chunks[c], overlap) = FirstChars(chunks[c + 1], overlap)

InPage == mpc \in {"chunk", "embedding", "inserting"}

RECURSIVE KeptPages(_, _)
KeptPages(rec, from) ==
  IF from > Len(rec) THEN <<>>
  ELSE (IF Trim(rec[from]) # <<>>
        THEN <<[page |-> from, content |-> Trim(rec[from])]>> ELSE <<>>)
       \o KeptPages(rec, from + 1)

\* C16: splitting the text that the OCR pipeline joined from the page texts
\* p1 .. pn (n >= 1) under the markers [PAGE 1] .. [PAGE n] gives back
\* exactly (1, trim(p1)), ..., (n, trim(pn)) in order, without the pages
\* whose trimmed text is empty.
C16_SplitInvertsJoin ==
  (xpc = "paged" /\ extracted.usedOcr /\ Len(recognized) >= 1) =>
    pages = KeptPages(recognized, 1)

HasMarker(s) == \E p \in 1..Len(s) : s[p].k = "mk"

\* C17: whatever text splitByPages is given, every record it returns has a
\* page number of at least 1 and a non-empty content without page marker,
\* and the page numbers never decrease along the result.
C17_PageRecordsValid ==
  spc = "returned" =>
    /\ \A p \in 1..Len(pages) :
         /\ pages[p].page >= 1
         /\ pages[p].content # <<>>
         /\ ~HasMarker(pages[p].content)
    /\ \A p \in 1..(Len(pages) - 1) : pages[p].page <= pages[p + 1].page

\* The OCR path has been entered.
OcrEntered ==
  \/ xpc \in {"creatingWorker", "recognizing", "terminating"}
  \/ xpc = "thrown" /\ xerr # "parsePdf"
  \/ xpc \in {"returned", "paged"} /\ extracted.usedOcr

\* No step of the OCR path has been taken.
OcrUntouched ==
  worker = "none" /\ tmpDir = "none" /\ recognized = <<>> /\ fullText = <<>>

\* s is t without the white space t starts and ends with.
IsTrimOf(s, t) ==
  /\ s # <<>> => (~IsSpace(s[1]) /\ ~IsSpace(s[Len(s)]))
  /\ \E a \in 1..(Len(t) + 1), b \in 0..Len(t) :
       /\ s = SubSeq(t, a, b)
       /\ \A p \in 1..Len(t) : (p < a \/ p > b) => IsSpace(t[p])

\* The native text without the white space around it has fewer than 300
\* characters.
NativeIsShort ==
  \E a \in 1..(Len(parsedText) + 1), b \in 0..Len(parsedText) :
    /\ IsTrimOf(SubSeq(parsedText, a, b), parsedText)
    /\ TextLen(SubSeq(parsedText, a, b)) < 300

\* C18 as stated: OCR is used exactly when the trimmed native text is
\* shorter than 300 characters; otherwise the result is the native text
\* unmodified.
C18_NativeTextUnmodified ==
  /\ OcrEntered => NativeIsShort
  /\ (xpc \in {"returned", "paged"} /\ ~extracted.usedOcr) =>
       (~NativeIsShort /\ OcrUntouched /\ extracted.text = parsedText)

\* C18 as amended: OCR is used exactly when the trimmed native text is
\* shorter than 300 characters; otherwise OCR is not touched and the result
\* is the native text without the white space around it.
C18_NativeTextTrimmed ==
  /\ OcrEntered => NativeIsShort
  /\ (xpc \in {"returned", "paged"} /\ ~extracted.usedOcr) =>
       /\ ~NativeIsShort
       /\ OcrUntouched
       /\ IsTrimOf(extracted.text, parsedText)

\* C18 witness: a native text of exactly 300 characters between white space
\* has been returned without OCR, and shorter than pdf-parse gave it.
C18_Witness ==
  /\ xpc = "returned" /\ ~extracted.usedOcr
  /\ TextLen(extracted.text) = 300
  /\ TextLen(parsedText) > 300

\* C19: when the service answers without a usable vector, none or an empty
\* one, embed() itself fails, the run is aborted with a non-zero exit code,
\* and no INSERT is issued and no row written for that chunk.
C19_NoVectorFailsEmbed ==
  lastEmbed.resp \in {"novec", "emptyvec"} =>
    /\ lastEmbed.outcome = "err"
    /\ mpc \in {"rejected", "exited"}
    /\ exitCode # 0
    /\ faults = 1 /\ atFault.stage = "embedding"
    /\ insertsIssued = atFault.inserts
    /\ nRows = atFault.rows

\* C20: in withRetry every backoff sleep is followed by another invocation
\* of the operation: whenever withRetry has returned or thrown, it has
\* slept once less than it has invoked the operation, and while it runs it
\* has never slept more often than it has invoked it.
C20_SleepsBetweenCalls ==
  /\ rpc \in {"returned", "thrown"} => sleeps = calls - 1
  /\ rpc = "call" => sleeps = calls - 1
  /\ rpc = "sleep" => sleeps = calls

\* The operations the limiter has started, and those of them whose promise,
\* the one limit() returned, has not settled.
Started == {startOrder[k] : k \in 1..Len(startOrder)}
Unsettled == {j \in Started : pres[j] = "pending"}

\* The embed() calls that are inside fn: waiting in paceEmbeds, awaiting the
\* outbound call, or waiting in a backoff sleep of withRetry.
InsideEmbed == {j \in Jobs : jst[j] \in {"pacing", "calling", "backoff"}}

\* C21: the limiter's active count equals the number of operations started
\* whose promise has not settled, and is never negative; the step in which
\* an operation's promise settles, fulfilled or rejected, gives back exactly
\* one slot, a promise settles once, and no other step gives a slot back; an
\* embed() call keeps its slot while it paces, calls and waits in a retry
\* backoff; and the count is 0 when the queue is empty and every submitted
\* operation has settled.
C21_ActiveCountsUnsettled ==
  /\ [](/\ active = Cardinality(Unsettled)
        /\ active >= 0
        /\ InsideEmbed \subseteq Unsettled
        /\ (queue = <<>> /\ \A j \in 1..nsub : pres[j] # "pending") => active = 0)
  /\ [][/\ \A j \in Jobs :
            /\ (pres[j] = "pending" /\ pres'[j] # "pending") =>
                 /\ pres'[j] \in {"ok", "err"}
                 /\ active' - (Len(startOrder') - Len(startOrder)) = active - 1
            /\ pres[j] # "pending" => pres'[j] = pres[j]
            /\ (jst[j] # jst'[j] /\ (jst[j] \in {"pacing", "backoff"} \/ jst'[j] = "backoff")) =>
                 (active' = active /\ pres'[j] = "pending")
        /\ pres' = pres => active' >= active]_vars

\* C21 witness: one embed() call has rejected and given its slot back, a
\* second one is in its second backoff wait and a third one is pacing, the
\* two of them holding both slots.
C21_Witness ==
  \E a, b, c \in Jobs :
    /\ pres[a] = "err" /\ jst[a] = "done"
    /\ jst[b] = "backoff" /\ tryNo[b] >= 1
    /\ jst[c] = "pacing"
    /\ active = 2

\* The least whole number that is at least a / b.
CeilDiv(a, b) == (a + b - 1) \div b

\* C22: called with 0 <= overlap < chunkSize, chunkText returns; it makes at
\* most ceil(len / (chunkSize - overlap)) turns of its loop, len being the
\* length of the white-space-normalised text (trimmed or not); and every
\* turn leaves the window offset larger than it found it.
C22_ChunkTextTerminates ==
  /\ (cpc = "called" /\ 0 <= overlap /\ overlap < chunkSize) ~> (cpc = "returned")
  /\ [](/\ turns <= CeilDiv(TextLen(Trim(Normalise(cText))), chunkSize - overlap)
        /\ turns <= CeilDiv(TextLen(Normalise(cText)), chunkSize - overlap))
  /\ [][turns' # turns => (turns' = turns + 1 /\ offset' > offset)]_vars

\* C22 witness: with the overlap one less than the window, chunkText has
\* returned chunks after as many turns as the text has characters.
C22_Witness ==
  /\ cpc = "returned"
  /\ overlap = chunkSize - 1
  /\ overlap > 0
  /\ turns = TextLen(clean)
  /\ turns > chunkSize
  /\ Len(chunks) > 1
====
